---- MODULE Spec2Model ----
(***************************************************************************)
(* Locate: the native position arbiter (HighAccuracyLocationModule.kt),    *)
(* the nearest-match scan of the check flow (App.js) and the location      *)
(* store (sqlite.js).  Each part has its own specification over the same   *)
(* variables: Spec and FairSpec run the arbiter (SpecConcurrent two calls  *)
(* of it), SpecMatch the scan, SpecStore the store (SpecSchema with its     *)
(* initialisation), SpecHandle the database handle and SpecApp the flows   *)
(* of the screen; a specification keeps the other parts at rest.           *)
(*                                                                         *)
(* One call of getHighAccuracyPosition is a session: it owns a completed   *)
(* flag, a best fix, a start time, one LocationListener and two delayed    *)
(* callbacks posted on the module's Handler.  Every callback (a fix, the   *)
(* network-start timer, the timeout timer) is a Looper message and runs to *)
(* completion, so each one is one action here.                             *)
(*                                                                         *)
(* Time is counted in ticks of TickMs milliseconds from the call on: the   *)
(* call is made at tick 0.  `now` is the clock the Handler schedules with  *)
(* (uptime); `wall` is System.currentTimeMillis, which the session reads   *)
(* to compute `elapsed` and which can be set while a session runs: it is   *)
(* kept between MaxSkew ticks behind `now` and level with it.              *)
(***************************************************************************)
EXTENDS Integers, Sequences, FiniteSets, TLC

\* ----- configuration constants (companion object) -----
LOCATION_TIMEOUT == 15000
NETWORK_FALLBACK_DELAY == 5000
GPS_GOOD_ACCURACY_THRESHOLD == 20
NETWORK_ACCEPTABLE_ACCURACY == 50

\* sqlite.js
DB_VERSION == 1

\* App.js
EARTH_RADIUS_METERS == 6371000
DISTANCE_THRESHOLD_METERS == 20

\* ----- bounds of the model -----
\* saved locations handed to one scan
MaxSaved == 2
\* rows one store run inserts
MaxAdds == 2
\* concurrent calls of Database.getInstance
MaxCallers == 3
\* asynchronous flows of the screen started from mount on
MaxFlows == 3
\* fixes delivered to one listener
MaxFixes == 2
\* fixes delivered to the listeners of two concurrent sessions together
MaxConcurrentFixes == 2
\* last tick of the uptime clock
MaxTicks == 3
\* how far, in ticks, the wall clock may fall behind the uptime clock
MaxSkew == 1

\* the clock's resolution: one network fallback delay
TickMs == NETWORK_FALLBACK_DELAY
Ms(t) == t * TickMs

\* the sessions (calls of getHighAccuracyPosition) the arbiter specification runs
Sessions == {1}
\* the sessions of two calls made one after the other, both in flight
ConcurrentSessions == {1, 2}

GPS_PROVIDER == "gps"
NETWORK_PROVIDER == "network"

\* accuracy readings (meters) a provider reports: both thresholds and their successors
Accuracies == {GPS_GOOD_ACCURACY_THRESHOLD, GPS_GOOD_ACCURACY_THRESHOLD + 1,
               NETWORK_ACCEPTABLE_ACCURACY, NETWORK_ACCEPTABLE_ACCURACY + 1}

NoLocation == [provider |-> "none"]
NoTimer == [state |-> "none"]

VARIABLES
    permission,          \* ACCESS_FINE_LOCATION is granted
    gpsEnabled,          \* LocationManager.isProviderEnabled(GPS_PROVIDER)
    networkEnabled,      \* LocationManager.isProviderEnabled(NETWORK_PROVIDER)
    now,                 \* uptime clock, in ticks
    wall,                \* wall clock, in ticks
    called,              \* [s] getHighAccuracyPosition was called for s
    isRequestCompleted,  \* [s] the session's completed flag
    bestLocationFound,   \* [s] the session's best fix, or NoLocation
    requestStartTime,    \* [s] wall clock at session start
    registered,          \* [s] providers the session's listener is registered with
    networkTimer,        \* [s] the delayed network-start callback
    timeoutTimer,        \* [s] the delayed timeout callback
    promise,             \* [s] the settlements made on the call's promise, in order
    removals,            \* [s] history: the calls of removeUpdates for the session's
                         \*     listener
    delivered            \* [s] history: the fixes handed to the session's listener, each
                         \*     with the elapsed time read for it (kept for network
                         \*     fixes only), whether the session was racing and whether
                         \*     the fix completed it

VARIABLES
    roundsAboveOne,      \* the platform's Math functions round the haversine term of an
                         \* antipodal pair above 1
    savedLocations,      \* App state: the cached list of saved locations
    currentPosition,     \* the position the check flow obtained
    closestLocation,     \* the result of the scan, once the flow has run
    alert                \* the Alert the check flow shows

VARIABLES
    rows,                \* the rows of table locations, in rowid order
    sqliteSequence,      \* sqlite_sequence: the largest id the table ever assigned
    lastCall,            \* the last call of a store function, with its outcome
    issued,              \* history: the ids addLocation returned, in order
    tableExists,         \* table locations exists
    storedVersion        \* metadata: the value stored under key "version" (a text),
                         \* or undefined when there is no such row or no such table

VARIABLES
    instance,            \* Database.instance: 0 for null, else the handle it holds
    opened,              \* the calls of SQLite.openDatabase made so far; the n-th
                         \* call yields handle n
    callers              \* [c] a call of Database.getInstance by a store function

VARIABLES
    isProcessing,        \* App state
    isRefreshing,        \* App state
    isAddDialogVisible,  \* App state
    newLocationName,     \* App state
    isDeleteAlertVisible,\* the confirmation Alert of confirmAndDeleteLocation is up
    deleteAlertLocationId, \* the locationId that Alert's delete button holds
    debounceTimer,       \* the debounced check has a call pending
    flows                \* the asynchronous flows in progress, each with the step it
                         \* awaits

arbVars == <<permission, gpsEnabled, networkEnabled, now, wall, called,
             isRequestCompleted, bestLocationFound, requestStartTime, registered,
             networkTimer, timeoutTimer, promise, removals, delivered>>
matchVars == <<roundsAboveOne, savedLocations, currentPosition, closestLocation, alert>>
storeVars == <<rows, sqliteSequence, lastCall, issued, tableExists, storedVersion>>
handleVars == <<instance, opened, callers>>
appVars == <<isProcessing, isRefreshing, isAddDialogVisible, newLocationName,
             isDeleteAlertVisible, deleteAlertLocationId, debounceTimer, flows>>
vars == <<arbVars, matchVars, storeVars, handleVars, appVars>>

\* ----- Location -----
\* a fix as the provider hands it over; the n-th fix of a session carries coordinates n
Location(provider, hasAccuracy, accuracy, n) ==
    [provider |-> provider, hasAccuracy |-> hasAccuracy,
     accuracy |-> IF hasAccuracy THEN accuracy ELSE 0,
     latitude |-> n, longitude |-> 100 + n]

\* Location.getAccuracy(): 0.0 when the fix has no accuracy
Accuracy(location) == IF location.hasAccuracy THEN location.accuracy ELSE 0

\* ----- promise settlements -----
Resolve(location) ==
    [kind |-> "resolve", latitude |-> location.latitude, longitude |-> location.longitude]
Reject(code) == [kind |-> "reject", code |-> code]

\* mutant: latitude and longitude are put under each other's key
returnLocationResultSwapped(location) ==
    <<[kind |-> "resolve", latitude |-> location.longitude,
       longitude |-> location.latitude]>>
returnLocationResult(location) == <<Resolve(location)>>

\* ----- decision logic -----
\* mutant: a fix of equal accuracy replaces the best fix
updateBestOnTie(newLocation, currentBest) ==
    IF currentBest = NoLocation \/ Accuracy(newLocation) <= Accuracy(currentBest)
    THEN newLocation
    ELSE currentBest

updateBestLocationIfBetter(newLocation, currentBest) ==
    IF currentBest = NoLocation \/ Accuracy(newLocation) < Accuracy(currentBest)
    THEN newLocation
    ELSE currentBest

\* mutant: the GPS threshold is exclusive
shouldReturnGpsBelowThreshold(isGpsProvider, accuracy) ==
    isGpsProvider /\ accuracy < GPS_GOOD_ACCURACY_THRESHOLD

shouldReturnGpsLocationImmediately(isGpsProvider, accuracy) ==
    isGpsProvider /\ accuracy <= GPS_GOOD_ACCURACY_THRESHOLD

\* mutant: the elapsed time is not looked at
shouldReturnNetworkAnyTime(isGpsProvider, elapsed, accuracy) ==
    ~isGpsProvider /\ accuracy <= NETWORK_ACCEPTABLE_ACCURACY

\* mutant: the delay is inclusive
shouldReturnNetworkAtDelay(isGpsProvider, elapsed, accuracy) ==
    /\ ~isGpsProvider
    /\ elapsed >= NETWORK_FALLBACK_DELAY
    /\ accuracy <= NETWORK_ACCEPTABLE_ACCURACY

shouldReturnNetworkLocationAfterDelay(isGpsProvider, elapsed, accuracy) ==
    /\ ~isGpsProvider
    /\ elapsed > NETWORK_FALLBACK_DELAY
    /\ accuracy <= NETWORK_ACCEPTABLE_ACCURACY

\* mutant: the listener does not look at the completed flag
listenerNeverReturnsEarly(completed) == FALSE

\* the listener's guard: a completed session ignores the fix
listenerReturnsEarly(completed) == completed

\* mutant: the timeout always fails
timeoutAlwaysRejects(best) == <<Reject("TIMEOUT")>>

\* mutant: the timeout fails with the code of the provider check
timeoutRejectsAsDisabled(best) ==
    IF best # NoLocation THEN returnLocationResult(best) ELSE <<Reject("GPS_DISABLED")>>

\* mutant: the timeout without a best fix settles nothing
timeoutSilentWithoutFix(best) ==
    IF best # NoLocation THEN returnLocationResult(best) ELSE <<>>

\* what the timeout callback settles the promise with
timeoutSettlement(best) ==
    IF best # NoLocation THEN returnLocationResult(best) ELSE <<Reject("TIMEOUT")>>

\* mutant: the providers are checked before the permission
entryCheckProvidersFirst(hasLocationPermission, isAnyLocationProviderEnabled) ==
    IF ~isAnyLocationProviderEnabled THEN "GPS_DISABLED"
    ELSE IF ~hasLocationPermission THEN "PERMISSION_DENIED"
    ELSE "ok"

\* the entry checks of getHighAccuracyPosition: the rejection code, or "ok"
entryCheck(hasLocationPermission, isAnyLocationProviderEnabled) ==
    IF ~hasLocationPermission THEN "PERMISSION_DENIED"
    ELSE IF ~isAnyLocationProviderEnabled THEN "GPS_DISABLED"
    ELSE "ok"

hasLocationPermission == permission
isAnyLocationProviderEnabled == gpsEnabled \/ networkEnabled

\* ----- the Handler's queue -----
PendingDue(timer) == timer.state = "pending"
\* the main Looper runs delayed messages in order of their due time
EarlierPending(due) ==
    \E s \in DOMAIN timeoutTimer :
        \/ PendingDue(networkTimer[s]) /\ networkTimer[s].due < due
        \/ PendingDue(timeoutTimer[s]) /\ timeoutTimer[s].due < due
Runnable(timer) ==
    /\ PendingDue(timer)
    /\ Ms(now) >= timer.due
    /\ ~EarlierPending(timer.due)

\* ===== JavaScript values (App.js, sqlite.js) =====
\* A value carries its typeof, and a number its kind: finite, NaN or Infinity.
Undefined == [type |-> "undefined", kind |-> "undefined", value |-> 0, text |-> ""]
Num(n) == [type |-> "number", kind |-> "finite", value |-> n, text |-> ""]
NaN == [type |-> "number", kind |-> "NaN", value |-> 0, text |-> ""]
Infinity == [type |-> "number", kind |-> "Infinity", value |-> 0, text |-> ""]
Str(s) == [type |-> "string", kind |-> "string", value |-> 0, text |-> s]

\* a < b on numbers: false as soon as one side is NaN
JsLess(a, b) ==
    /\ a.kind # "NaN"
    /\ b.kind # "NaN"
    /\ a.kind = "finite"
    /\ (b.kind = "Infinity" \/ a.value < b.value)

\* a <= b on numbers: false as soon as one side is NaN
JsLessEq(a, b) ==
    /\ a.kind # "NaN"
    /\ b.kind # "NaN"
    /\ (b.kind = "Infinity" \/ (a.kind = "finite" /\ a.value <= b.value))

\* !v: undefined, 0, NaN and the empty string are falsy
Falsy(v) ==
    \/ v.type = "undefined"
    \/ (v.type = "number" /\ (v.kind = "NaN" \/ (v.kind = "finite" /\ v.value = 0)))
    \/ (v.type = "string" /\ v.text = "")

\* ===== the nearest-match scan (App.js) =====
\* Positions lie on one great circle through the poles.  A latitude is counted
\* in meters of arc along the meridian (n stands for n * 180 / (pi * R)
\* degrees); a longitude is the meridian's, 0 or 180 degrees.
\* The latitudes: one reference point, the points one threshold and one
\* threshold plus a meter away from it, and its mirror image.
RefLatitude == 778
Latitudes == {-RefLatitude, RefLatitude - DISTANCE_THRESHOLD_METERS, RefLatitude,
              RefLatitude + DISTANCE_THRESHOLD_METERS,
              RefLatitude + DISTANCE_THRESHOLD_METERS + 1}
Longitudes == {0, 180}
Points == [latitude : Latitudes, longitude : Longitudes]

\* R * pi, the distance between antipodes, in whole meters (pi as 355/113)
HalfMeridian ==
    (EARTH_RADIUS_METERS \div 113) * 355 + ((EARTH_RADIUS_METERS % 113) * 355) \div 113

Abs(n) == IF n < 0 THEN -n ELSE n

\* The haversine formula on this circle.  On one meridian the term is
\* sin^2(dLat/2) and the result the arc between the latitudes.  Across the two
\* meridians sin^2(dLon/2) is 1, the term is
\* sin^2(dLat/2) + cos(lat1)cos(lat2) = cos^2((lat1 + lat2)/2), and the result
\* is the arc over the pole.  For antipodes off the equator the exact term is
\* 1 and the two rounded summands can add up to the next double above 1: then
\* Math.sqrt(1 - term) is NaN, and so are Math.atan2 and the product.
calculateDistanceBetweenPoints(lat1, lon1, lat2, lon2) ==
    IF lon1 = lon2
    THEN Num(Abs(lat2 - lat1))
    ELSE IF lat1 + lat2 = 0 /\ lat1 # 0 /\ roundsAboveOne
         THEN NaN
         ELSE Num(HalfMeridian - Abs(lat1 + lat2))

\* the reduce call's initial value, {distance: Infinity}; location is undefined
\* (the empty sequence), a location is <<row>>
initialAccumulatorAtZero == [location |-> <<>>, distance |-> Num(0)]
initialAccumulator == [location |-> <<>>, distance |-> Infinity]

\* the reduce callback
closestStepKeepsLast(accumulator, savedLocation, latitude, longitude) ==
    LET distanceToSaved == calculateDistanceBetweenPoints(latitude, longitude,
                               savedLocation.latitude, savedLocation.longitude)
    IN  IF JsLessEq(distanceToSaved, accumulator.distance)
        THEN [location |-> <<savedLocation>>, distance |-> distanceToSaved]
        ELSE accumulator
closestStep(accumulator, savedLocation, latitude, longitude) ==
    LET distanceToSaved == calculateDistanceBetweenPoints(latitude, longitude,
                               savedLocation.latitude, savedLocation.longitude)
    IN  IF JsLess(distanceToSaved, accumulator.distance)
        THEN [location |-> <<savedLocation>>, distance |-> distanceToSaved]
        ELSE accumulator

\* savedLocations.reduce(callback, initial), over the first n elements
RECURSIVE reduceClosest(_, _, _, _)
reduceClosest(locations, n, latitude, longitude) ==
    IF n = 0
    THEN initialAccumulator
    ELSE closestStep(reduceClosest(locations, n - 1, latitude, longitude),
                     locations[n], latitude, longitude)

\* closestLocation.distance <= DISTANCE_THRESHOLD_METERS
isWithinThresholdStrict(distance) == JsLess(distance, Num(DISTANCE_THRESHOLD_METERS))
isWithinThreshold(distance) == JsLessEq(distance, Num(DISTANCE_THRESHOLD_METERS))

NoAlert == [title |-> "none", name |-> ""]
NotScanned == [location |-> <<>>, distance |-> NaN]

\* the lists the scan runs on: rows of the store, ids distinct and increasing
SavedName(i) == IF i % 2 = 1 THEN "Home" ELSE "Work"
SavedRow(i, p) == [id |-> i, latitude |-> p.latitude, longitude |-> p.longitude,
                   name |-> SavedName(i)]
SavedLists ==
    UNION {{[i \in 1 .. n |-> SavedRow(i, f[i])] : f \in [1 .. n -> Points]} :
           n \in 0 .. MaxSaved}

MatchInit ==
    /\ roundsAboveOne \in BOOLEAN
    /\ savedLocations \in SavedLists
    /\ currentPosition \in Points
    /\ closestLocation = NotScanned
    /\ alert = NoAlert

MatchAtRest ==
    /\ roundsAboveOne = FALSE
    /\ savedLocations = <<>>
    /\ currentPosition = [latitude |-> RefLatitude, longitude |-> 0]
    /\ closestLocation = NotScanned
    /\ alert = NoAlert

\* checkCurrentLocationAgainstSaved, from the position on: the scan and the
\* alert.  Reading .name of an undefined location throws; the catch block
\* shows the error alert.
resultAlert(closest) ==
    IF isWithinThreshold(closest.distance)
    THEN IF closest.location = <<>>
         THEN [title |-> "error", name |-> ""]
         ELSE [title |-> "match", name |-> closest.location[1].name]
    ELSE [title |-> "noMatch",
          name |-> IF closest.location = <<>> \/ closest.location[1].name = ""
                   THEN "Khong co"
                   ELSE closest.location[1].name]

checkCurrentLocationAgainstSaved ==
    /\ alert = NoAlert
    /\ LET closest == reduceClosest(savedLocations, Len(savedLocations),
                                    currentPosition.latitude, currentPosition.longitude)
       IN  /\ closestLocation' = closest
           /\ alert' = resultAlert(closest)
    /\ UNCHANGED <<roundsAboveOne, savedLocations, currentPosition>>
    /\ UNCHANGED <<arbVars, storeVars, handleVars, appVars>>

\* ===== the location store (sqlite.js) =====
Bool(b) == [type |-> "boolean", kind |-> IF b THEN "true" ELSE "false", value |-> 0,
            text |-> ""]

\* the arguments the store functions are called with
LatitudeInputs == {Undefined, Num(0), Num(RefLatitude),
                   Num(RefLatitude + DISTANCE_THRESHOLD_METERS), Str("778")}
LongitudeInputs == {Undefined, Num(0), Num(180), Str("180")}
TimestampInputs == {Undefined, Str(""), Str("2025-01-01T00:00:00.000Z")}
NameInputs == {Undefined, Str(""), Str("Home")}
IdInputs == {Undefined, Str("1")} \cup {Num(n) : n \in 0 .. MaxAdds + 1}

NoCall == [op |-> "none", args |-> <<>>, before |-> <<>>, outcome |-> "none",
           value |-> Undefined, error |-> "", fetched |-> <<>>]
Returned(op, args, before, value, fetched) ==
    [op |-> op, args |-> args, before |-> before, outcome |-> "returned",
     value |-> value, error |-> "", fetched |-> fetched]
Threw(op, args, before, error) ==
    [op |-> op, args |-> args, before |-> before, outcome |-> "threw",
     value |-> Undefined, error |-> error, fetched |-> <<>>]

\* the two checks addLocation makes before it opens the database: the message
\* of the Error it throws, or "" when it goes on
addLocationRejects(latitude, longitude, timestamp, name) ==
    IF Falsy(latitude) \/ Falsy(longitude) \/ Falsy(timestamp) \/ Falsy(name)
    THEN "All location fields are required"
    ELSE IF latitude.type # "number" \/ longitude.type # "number"
         THEN "Latitude and longitude must be numbers"
         ELSE ""

\* mutant: deleteLocation runs the DELETE whatever its argument is
deleteLocationRejectsNothing(id) == ""
\* the check deleteLocation makes before it opens the database
deleteLocationRejects(id) ==
    IF Falsy(id) \/ id.type # "number"
    THEN "Valid location ID is required"
    ELSE ""

RowIds(rs) == {rs[i].id : i \in 1 .. Len(rs)}
MaxRowId(rs) == IF rs = <<>> THEN 0 ELSE CHOOSE m \in RowIds(rs) : \A n \in RowIds(rs) : n <= m

\* the id an INSERT gives the new row.  id is INTEGER PRIMARY KEY
\* AUTOINCREMENT: one more than the largest id the table ever held, which
\* sqlite_sequence keeps.  (Without AUTOINCREMENT: one more than the largest
\* id in the table now.)
insertIdOfPlainRowid(rs, sequence) == MaxRowId(rs) + 1
insertId(rs, sequence) == IF sequence > MaxRowId(rs) THEN sequence + 1 ELSE MaxRowId(rs) + 1

\* DELETE FROM locations WHERE id = ?: the rows that stay
deleteFromLocationsAll(rs, id) == SelectSeq(rs, LAMBDA r : FALSE)
deleteFromLocations(rs, id) == SelectSeq(rs, LAMBDA r : r.id # id)

\* ----- the schema version -----
\* the decimal text of a small number, as the TEXT column value holds it
DecimalTexts == <<"0", "1", "2">>
DecimalText(n) == DecimalTexts[n + 1]

\* parseInt(text, 10): the number a decimal text stands for, NaN for any other text
parseInt(v) ==
    IF \E n \in 0 .. Len(DecimalTexts) - 1 : DecimalText(n) = v.text
    THEN Num(CHOOSE n \in 0 .. Len(DecimalTexts) - 1 : DecimalText(n) = v.text)
    ELSE NaN

\* let currentVersion = 0; if a row is found, parseInt(value, 10) || 0
currentVersionOf(stored) ==
    IF stored = Undefined
    THEN Num(0)
    ELSE IF Falsy(parseInt(stored)) THEN Num(0) ELSE parseInt(stored)

\* currentVersion < DB_VERSION
needsMigrationAlsoWhenCurrent(currentVersion) == JsLessEq(currentVersion, Num(DB_VERSION))
needsMigration(currentVersion) == JsLess(currentVersion, Num(DB_VERSION))

\* executeSql on table locations rejects when the table does not exist
executeSqlRejects == IF tableExists THEN "" ELSE "no such table: locations"

\* the store after initializeDatabase ran on a fresh installation
StoreInit ==
    /\ rows = <<>>
    /\ sqliteSequence = 0
    /\ lastCall = NoCall
    /\ issued = <<>>
    /\ tableExists = TRUE
    /\ storedVersion = Str(DecimalText(DB_VERSION))

StoreAtRest == StoreInit

\* the store functions as they act on the database; the actions below are calls
\* of them with nothing else going on
addLocationRuns(latitude, longitude, timestamp, name) ==
    LET args == <<latitude, longitude, timestamp, name>>
        rejected == addLocationRejects(latitude, longitude, timestamp, name)
        error == IF rejected # "" THEN rejected ELSE executeSqlRejects
        id == insertId(rows, sqliteSequence)
    IN  /\ Len(issued) < MaxAdds
        /\ IF error # ""
           THEN /\ lastCall' = Threw("addLocation", args, rows, error)
                /\ UNCHANGED <<rows, sqliteSequence, issued>>
           ELSE /\ rows' = Append(rows, [id |-> id, latitude |-> latitude.value,
                                         longitude |-> longitude.value,
                                         timestamp |-> timestamp.text,
                                         name |-> name.text])
                /\ sqliteSequence' = id
                /\ issued' = Append(issued, id)
                /\ lastCall' = Returned("addLocation", args, rows, Num(id), <<>>)
        /\ UNCHANGED <<tableExists, storedVersion>>

fetchLocationsRuns ==
    /\ lastCall' = IF executeSqlRejects # ""
                   THEN Threw("fetchLocations", <<>>, rows, executeSqlRejects)
                   ELSE Returned("fetchLocations", <<>>, rows, Undefined, rows)
    /\ UNCHANGED <<rows, sqliteSequence, issued, tableExists, storedVersion>>

deleteLocationRuns(id) ==
    LET rejected == deleteLocationRejects(id)
        error == IF rejected # "" THEN rejected ELSE executeSqlRejects
        remaining == deleteFromLocations(rows, id.value)
        rowsAffected == Len(rows) - Len(remaining)
    IN  /\ IF error # ""
           THEN /\ lastCall' = Threw("deleteLocation", <<id>>, rows, error)
                /\ UNCHANGED rows
           ELSE /\ rows' = remaining
                /\ lastCall' = Returned("deleteLocation", <<id>>, rows,
                                        Bool(rowsAffected > 0), <<>>)
        /\ UNCHANGED <<sqliteSequence, issued, tableExists, storedVersion>>

\* initializeDatabase: the metadata table, the version read, the migration, the
\* check that table locations exists.  DROP TABLE also forgets the table's
\* sqlite_sequence.
initializeDatabaseRuns ==
    LET currentVersion == currentVersionOf(storedVersion)
    IN  /\ IF needsMigration(currentVersion)
           THEN /\ rows' = <<>>
                /\ sqliteSequence' = 0
                /\ tableExists' = TRUE
                /\ storedVersion' = Str(DecimalText(DB_VERSION))
                /\ lastCall' = Returned("initializeDatabase", <<storedVersion>>, rows,
                                        Undefined, <<>>)
           ELSE /\ UNCHANGED <<rows, sqliteSequence, tableExists, storedVersion>>
                /\ lastCall' =
                     IF tableExists
                     THEN Returned("initializeDatabase", <<storedVersion>>, rows,
                                   Undefined, <<>>)
                     ELSE Threw("initializeDatabase", <<storedVersion>>, rows,
                                "locations table was not created")
        /\ UNCHANGED issued

addLocation(latitude, longitude, timestamp, name) ==
    /\ addLocationRuns(latitude, longitude, timestamp, name)
    /\ UNCHANGED <<arbVars, matchVars, handleVars, appVars>>

fetchLocations ==
    /\ fetchLocationsRuns
    /\ UNCHANGED <<arbVars, matchVars, handleVars, appVars>>

deleteLocation(id) ==
    /\ deleteLocationRuns(id)
    /\ UNCHANGED <<arbVars, matchVars, handleVars, appVars>>

initializeDatabase ==
    /\ initializeDatabaseRuns
    /\ UNCHANGED <<arbVars, matchVars, handleVars, appVars>>

\* ===== the screen (App.js) =====
\* the state of a screen on which nothing is going on
AppAtRest ==
    /\ isProcessing = FALSE
    /\ isRefreshing = FALSE
    /\ isAddDialogVisible = FALSE
    /\ newLocationName = ""
    /\ isDeleteAlertVisible = FALSE
    /\ deleteAlertLocationId = 0
    /\ debounceTimer = FALSE
    /\ flows = <<>>

\* a flow: the handler it runs in, the call it awaits ("ended" once the handler
\* has returned), and what its
\* closure and its locals hold: newLocationName (save), the outcome of the
\* permission request, the position obtained (none yet: <<>>), savedLocations
\* (check), locationId (delete)
Flow(flow, pc) ==
    [flow |-> flow, pc |-> pc, name |-> "", granted |-> FALSE, position |-> <<>>,
     snapshot |-> <<>>, locationId |-> 0]
Ended(seq, i) == [seq EXCEPT ![i] = Flow(seq[i].flow, "ended")]
AtPc(seq, i, pc) == [seq EXCEPT ![i].pc = pc]
IsAt(f, flow, pc) == f.flow = flow /\ f.pc = pc

\* the screen right after mount: the effect has called initializeAppData, which set
\* isProcessing and awaits initializeDatabase
AppInit ==
    /\ isProcessing = TRUE
    /\ isRefreshing = FALSE
    /\ isAddDialogVisible = FALSE
    /\ newLocationName = ""
    /\ isDeleteAlertVisible = FALSE
    /\ deleteAlertLocationId = 0
    /\ debounceTimer = FALSE
    /\ flows = <<Flow("initializeAppData", "initializeDatabase")>>

\* the list and the floating buttons take touches: the loading overlay (shown while
\* isProcessing) covers the screen, the add dialog and the confirmation alert are
\* modal; the buttons are disabled while isProcessing as well
Touchable == ~isProcessing /\ ~isAddDialogVisible /\ ~isDeleteAlertVisible

\* names the user types
NameInputTexts == {"", " ", "Home"}

\* String.prototype.trim on these texts
trim(text) == IF text = " " THEN "" ELSE text

\* mutant: the save goes on whatever the name is
nameIsBlankNever(text) == FALSE
\* !newLocationName.trim()
nameIsBlank(text) == trim(text) = ""

\* the positions getHighAccuracyPosition resolves with: a reference point, and a
\* point a meter beyond the threshold from it
AppPositions == {[latitude |-> RefLatitude, longitude |-> 180],
                 [latitude |-> RefLatitude + DISTANCE_THRESHOLD_METERS + 1,
                  longitude |-> 180]}

\* new Date().toISOString()
CurrentTimestamp == "2025-01-01T00:00:00.000Z"

\* a store function called from a flow: Database.getInstance() rejects (the
\* function throws before it touches the database), or the function runs
StoreCall(opens, runs) == IF opens THEN runs ELSE UNCHANGED storeVars
StoreCallReturned(opens) == opens /\ lastCall'.outcome = "returned"

\* initializeAppData after await initializeDatabase()
initializeDatabaseSettles(i, opens) ==
    /\ IsAt(flows[i], "initializeAppData", "initializeDatabase")
    /\ StoreCall(opens, initializeDatabaseRuns)
    /\ IF StoreCallReturned(opens)
       THEN /\ flows' = AtPc(flows, i, "fetchLocations")
            /\ UNCHANGED isProcessing
       ELSE /\ flows' = Ended(flows, i)
            /\ isProcessing' = FALSE
    /\ UNCHANGED <<isRefreshing, isAddDialogVisible, newLocationName,
                   isDeleteAlertVisible, deleteAlertLocationId, debounceTimer>>
    /\ UNCHANGED <<arbVars, matchVars, handleVars>>

\* loadSavedLocations after await fetchLocations(), and the rest of the handler
\* that called it.  setSavedLocations gives checkCurrentLocationAgainstSaved and
\* its debounced wrapper a new identity, and the effect's cleanup cancels the old
\* wrapper's pending call.
loadSavedLocationsSettles(i, opens) ==
    /\ flows[i].pc = "fetchLocations"
    /\ StoreCall(opens, fetchLocationsRuns)
    /\ flows' = Ended(flows, i)
    /\ savedLocations' = IF StoreCallReturned(opens)
                         THEN lastCall'.fetched ELSE savedLocations
    /\ debounceTimer' = IF StoreCallReturned(opens) THEN FALSE ELSE debounceTimer
    /\ isProcessing' = IF flows[i].flow \in {"initializeAppData", "saveNewLocation"}
                       THEN FALSE ELSE isProcessing
    /\ isRefreshing' = IF flows[i].flow = "handleRefreshLocationList"
                       THEN FALSE ELSE isRefreshing
    /\ newLocationName' = IF flows[i].flow = "saveNewLocation"
                          THEN "" ELSE newLocationName
    /\ UNCHANGED <<isAddDialogVisible, isDeleteAlertVisible, deleteAlertLocationId>>
    /\ UNCHANGED <<roundsAboveOne, currentPosition, closestLocation, alert>>
    /\ UNCHANGED <<arbVars, handleVars>>

\* pull to refresh
handleRefreshLocationList ==
    /\ Touchable
    /\ ~isRefreshing
    /\ Len(flows) < MaxFlows
    /\ isRefreshing' = TRUE
    /\ flows' = Append(flows, Flow("handleRefreshLocationList", "fetchLocations"))
    /\ UNCHANGED <<isProcessing, isAddDialogVisible, newLocationName,
                   isDeleteAlertVisible, deleteAlertLocationId, debounceTimer>>
    /\ UNCHANGED <<arbVars, matchVars, storeVars, handleVars>>

\* the add button
showAddLocationDialog ==
    /\ Touchable
    /\ isAddDialogVisible' = TRUE
    /\ UNCHANGED <<isProcessing, isRefreshing, newLocationName, isDeleteAlertVisible,
                   deleteAlertLocationId, debounceTimer, flows>>
    /\ UNCHANGED <<arbVars, matchVars, storeVars, handleVars>>

\* the dialog's cancel button
hideAddLocationDialog ==
    /\ isAddDialogVisible
    /\ isAddDialogVisible' = FALSE
    /\ newLocationName' = ""
    /\ UNCHANGED <<isProcessing, isRefreshing, isDeleteAlertVisible,
                   deleteAlertLocationId, debounceTimer, flows>>
    /\ UNCHANGED <<arbVars, matchVars, storeVars, handleVars>>

\* the dialog's input
setNewLocationName(text) ==
    /\ isAddDialogVisible
    /\ newLocationName' = text
    /\ UNCHANGED <<isProcessing, isRefreshing, isAddDialogVisible,
                   isDeleteAlertVisible, deleteAlertLocationId, debounceTimer, flows>>
    /\ UNCHANGED <<arbVars, matchVars, storeVars, handleVars>>

\* the dialog's save button (disabled while isProcessing): saveNewLocation up to
\* await requestLocationAccess()
saveNewLocation ==
    /\ isAddDialogVisible
    /\ ~isProcessing
    /\ Len(flows) < MaxFlows
    /\ flows' = IF nameIsBlank(newLocationName)
                THEN flows
                ELSE Append(flows, [Flow("saveNewLocation", "requestLocationAccess")
                                    EXCEPT !.name = newLocationName])
    /\ UNCHANGED <<isProcessing, isRefreshing, isAddDialogVisible, newLocationName,
                   isDeleteAlertVisible, deleteAlertLocationId, debounceTimer>>
    /\ UNCHANGED <<arbVars, matchVars, storeVars, handleVars>>

\* saveNewLocation / checkCurrentLocationAgainstSaved after
\* await requestLocationAccess(): only now is isProcessing set
requestLocationAccessSettles(i, granted) ==
    /\ flows[i].pc = "requestLocationAccess"
    /\ IF granted
       THEN /\ flows' = [flows EXCEPT ![i].pc = "getHighAccuracyPosition",
                                      ![i].granted = TRUE]
            /\ isProcessing' = TRUE
            /\ isAddDialogVisible' = IF flows[i].flow = "saveNewLocation"
                                     THEN FALSE ELSE isAddDialogVisible
       ELSE /\ flows' = Ended(flows, i)
            /\ UNCHANGED <<isProcessing, isAddDialogVisible>>
    /\ UNCHANGED <<isRefreshing, newLocationName, isDeleteAlertVisible,
                   deleteAlertLocationId, debounceTimer>>
    /\ UNCHANGED <<arbVars, matchVars, storeVars, handleVars>>

\* after await getCurrentLocation(): the save goes on to addLocation; the check
\* scans the savedLocations of its closure and shows its result; a failure ends
\* either in its catch and finally blocks
getCurrentLocationSettles(i, ok, position) ==
    /\ flows[i].pc = "getHighAccuracyPosition"
    /\ IF ok /\ flows[i].flow = "saveNewLocation"
       THEN /\ flows' = [flows EXCEPT ![i].pc = "addLocation",
                                      ![i].position = <<position>>]
            /\ UNCHANGED isProcessing
       ELSE /\ flows' = Ended(flows, i)
            /\ isProcessing' = FALSE
    /\ IF flows[i].flow = "checkCurrentLocationAgainstSaved"
       THEN IF ok
            THEN LET closest == reduceClosest(flows[i].snapshot,
                                              Len(flows[i].snapshot),
                                              position.latitude, position.longitude)
                 IN  /\ currentPosition' = position
                     /\ closestLocation' = closest
                     /\ alert' = resultAlert(closest)
            ELSE /\ alert' = [title |-> "error", name |-> ""]
                 /\ UNCHANGED <<currentPosition, closestLocation>>
       ELSE UNCHANGED <<currentPosition, closestLocation, alert>>
    /\ UNCHANGED <<roundsAboveOne, savedLocations>>
    /\ UNCHANGED <<isRefreshing, isAddDialogVisible, newLocationName,
                   isDeleteAlertVisible, deleteAlertLocationId, debounceTimer>>
    /\ UNCHANGED <<arbVars, storeVars, handleVars>>

\* saveNewLocation after await addLocation(latitude, longitude, currentTimestamp,
\* newLocationName.trim())
addLocationSettles(i, opens) ==
    /\ IsAt(flows[i], "saveNewLocation", "addLocation")
    /\ StoreCall(opens,
                 IF flows[i].position = <<>>
                 THEN addLocationRuns(Undefined, Undefined, Str(CurrentTimestamp),
                                      Str(trim(flows[i].name)))
                 ELSE addLocationRuns(Num(flows[i].position[1].latitude),
                                      Num(flows[i].position[1].longitude),
                                      Str(CurrentTimestamp), Str(trim(flows[i].name))))
    /\ IF StoreCallReturned(opens)
       THEN /\ flows' = AtPc(flows, i, "fetchLocations")
            /\ UNCHANGED isProcessing
       ELSE /\ flows' = Ended(flows, i)
            /\ isProcessing' = FALSE
    /\ UNCHANGED <<isRefreshing, isAddDialogVisible, newLocationName,
                   isDeleteAlertVisible, deleteAlertLocationId, debounceTimer>>
    /\ UNCHANGED <<arbVars, matchVars, handleVars>>

\* the check button (disabled while isProcessing): a press (re)starts the wait
debouncedCheckLocation ==
    /\ Touchable
    /\ debounceTimer' = TRUE
    /\ UNCHANGED <<isProcessing, isRefreshing, isAddDialogVisible, newLocationName,
                   isDeleteAlertVisible, deleteAlertLocationId, flows>>
    /\ UNCHANGED <<arbVars, matchVars, storeVars, handleVars>>

\* the wait has passed: checkCurrentLocationAgainstSaved, with the savedLocations
\* of the render that made it, up to await requestLocationAccess()
debounceFires ==
    /\ debounceTimer
    /\ Len(flows) < MaxFlows
    /\ debounceTimer' = FALSE
    /\ flows' = Append(flows, [Flow("checkCurrentLocationAgainstSaved",
                                    "requestLocationAccess")
                               EXCEPT !.snapshot = savedLocations])
    /\ UNCHANGED <<isProcessing, isRefreshing, isAddDialogVisible, newLocationName,
                   isDeleteAlertVisible, deleteAlertLocationId>>
    /\ UNCHANGED <<arbVars, matchVars, storeVars, handleVars>>

\* a long press on a row of the list: the confirmation alert for its id
confirmAndDeleteLocation(k) ==
    /\ Touchable
    /\ k \in 1 .. Len(savedLocations)
    /\ isDeleteAlertVisible' = TRUE
    /\ deleteAlertLocationId' = savedLocations[k].id
    /\ UNCHANGED <<isProcessing, isRefreshing, isAddDialogVisible, newLocationName,
                   debounceTimer, flows>>
    /\ UNCHANGED <<arbVars, matchVars, storeVars, handleVars>>

\* the alert's cancel button
deleteAlertCancelled ==
    /\ isDeleteAlertVisible
    /\ isDeleteAlertVisible' = FALSE
    /\ deleteAlertLocationId' = 0
    /\ UNCHANGED <<isProcessing, isRefreshing, isAddDialogVisible, newLocationName,
                   debounceTimer, flows>>
    /\ UNCHANGED <<arbVars, matchVars, storeVars, handleVars>>

\* the alert's delete button: onPress up to await deleteLocation(locationId)
deleteAlertConfirmed ==
    /\ isDeleteAlertVisible
    /\ Len(flows) < MaxFlows
    /\ isDeleteAlertVisible' = FALSE
    /\ deleteAlertLocationId' = 0
    /\ flows' = Append(flows, [Flow("confirmAndDeleteLocation", "deleteLocation")
                               EXCEPT !.locationId = deleteAlertLocationId])
    /\ UNCHANGED <<isProcessing, isRefreshing, isAddDialogVisible, newLocationName,
                   debounceTimer>>
    /\ UNCHANGED <<arbVars, matchVars, storeVars, handleVars>>

\* the delete button's onPress after await deleteLocation(locationId)
deleteLocationSettles(i, opens) ==
    /\ IsAt(flows[i], "confirmAndDeleteLocation", "deleteLocation")
    /\ StoreCall(opens, deleteLocationRuns(Num(flows[i].locationId)))
    /\ flows' = IF StoreCallReturned(opens)
                THEN AtPc(flows, i, "fetchLocations") ELSE Ended(flows, i)
    /\ UNCHANGED <<isProcessing, isRefreshing, isAddDialogVisible, newLocationName,
                   isDeleteAlertVisible, deleteAlertLocationId, debounceTimer>>
    /\ UNCHANGED <<arbVars, matchVars, handleVars>>


\* ===== the database handle (sqlite.js, class Database) =====
\* the store functions, each of which starts with await Database.getInstance()
StoreFunctions == {"initializeDatabase", "addLocation", "fetchLocations",
                   "deleteLocation"}
Callers == 1 .. MaxCallers
Idle == [op |-> "none", pc |-> "idle", handle |-> 0]

HandleInit ==
    /\ instance = 0
    /\ opened = 0
    /\ callers = [c \in Callers |-> Idle]

HandleAtRest == HandleInit

\* getInstance up to its await: the test of Database.instance, and either the
\* return or the call of SQLite.openDatabase
getInstance(c, op) ==
    /\ callers[c].pc = "idle"
    /\ IF instance = 0
       THEN /\ opened' = opened + 1
            /\ callers' = [callers EXCEPT ![c] =
                              [op |-> op, pc |-> "opening", handle |-> opened + 1]]
       ELSE /\ callers' = [callers EXCEPT ![c] =
                              [op |-> op, pc |-> "returned", handle |-> instance]]
            /\ UNCHANGED opened
    /\ UNCHANGED instance
    /\ UNCHANGED <<arbVars, matchVars, storeVars, appVars>>

\* openDatabase resolves: the assignment to Database.instance and the return of it
openDatabaseResolves(c) ==
    /\ callers[c].pc = "opening"
    /\ instance' = callers[c].handle
    /\ callers' = [callers EXCEPT ![c].pc = "returned", ![c].handle = instance']
    /\ UNCHANGED opened
    /\ UNCHANGED <<arbVars, matchVars, storeVars, appVars>>

\* openDatabase rejects: getInstance rejects and Database.instance stays as it is
openDatabaseRejects(c) ==
    /\ callers[c].pc = "opening"
    /\ callers' = [callers EXCEPT ![c].pc = "threw", ![c].handle = 0]
    /\ UNCHANGED <<instance, opened>>
    /\ UNCHANGED <<arbVars, matchVars, storeVars, appVars>>

\* ----- Init -----
ArbInit ==
    /\ permission \in BOOLEAN
    /\ gpsEnabled \in BOOLEAN
    /\ networkEnabled \in BOOLEAN
    /\ now = 0
    /\ wall = 0
    /\ called = [s \in Sessions |-> FALSE]
    /\ isRequestCompleted = [s \in Sessions |-> FALSE]
    /\ bestLocationFound = [s \in Sessions |-> NoLocation]
    /\ requestStartTime = [s \in Sessions |-> 0]
    /\ registered = [s \in Sessions |-> {}]
    /\ networkTimer = [s \in Sessions |-> NoTimer]
    /\ timeoutTimer = [s \in Sessions |-> NoTimer]
    /\ promise = [s \in Sessions |-> <<>>]
    /\ removals = [s \in Sessions |-> 0]
    /\ delivered = [s \in Sessions |-> <<>>]

ArbAtRest ==
    /\ ArbInit
    /\ permission
    /\ gpsEnabled
    /\ networkEnabled

Init ==
    /\ ArbInit
    /\ MatchAtRest
    /\ StoreAtRest
    /\ HandleAtRest
    /\ AppAtRest

\* ----- clocks -----
Tick ==
    /\ now < MaxTicks
    /\ now' = now + 1
    /\ wall' = wall + 1
    /\ UNCHANGED <<permission, gpsEnabled, networkEnabled, called, isRequestCompleted,
                   bestLocationFound, requestStartTime, registered, networkTimer,
                   timeoutTimer, promise, removals, delivered>>
    /\ UNCHANGED <<matchVars, storeVars, handleVars, appVars>>

\* the wall clock is set (by the user or the network) while the uptime clock runs on
WallClockSet ==
    /\ \E d \in {-1, 1} :
        /\ wall + d - now \in -MaxSkew .. 0
        /\ wall' = wall + d
    /\ UNCHANGED <<permission, gpsEnabled, networkEnabled, now, called,
                   isRequestCompleted, bestLocationFound, requestStartTime, registered,
                   networkTimer, timeoutTimer, promise, removals, delivered>>
    /\ UNCHANGED <<matchVars, storeVars, handleVars, appVars>>

\* ----- getHighAccuracyPosition -----
\* startGpsProvider: the providers the listener is registered with afterwards
startGpsProvider == IF gpsEnabled THEN {GPS_PROVIDER} ELSE {}

\* scheduleNetworkProviderStart: posts the callback, with the flag's value as passed
scheduleNetworkProviderStart(isCompleted) ==
    IF networkEnabled
    THEN [state |-> "pending", due |-> Ms(now) + NETWORK_FALLBACK_DELAY,
          isCompleted |-> isCompleted]
    ELSE NoTimer

scheduleTimeoutHandler ==
    [state |-> "pending", due |-> Ms(now) + LOCATION_TIMEOUT]

\* requestLocationUpdates throws SecurityException without the permission
startLocationRequest(s) ==
    /\ isRequestCompleted' = [isRequestCompleted EXCEPT ![s] = FALSE]
    /\ bestLocationFound' = [bestLocationFound EXCEPT ![s] = NoLocation]
    /\ requestStartTime' = [requestStartTime EXCEPT ![s] = wall]
    /\ IF gpsEnabled /\ ~permission
       THEN /\ promise' = [promise EXCEPT ![s] = Append(@, Reject("PERMISSION_DENIED"))]
            /\ UNCHANGED <<registered, networkTimer, timeoutTimer>>
       ELSE /\ registered' = [registered EXCEPT ![s] = startGpsProvider]
            /\ networkTimer' =
                 [networkTimer EXCEPT ![s] = scheduleNetworkProviderStart(FALSE)]
            /\ timeoutTimer' = [timeoutTimer EXCEPT ![s] = scheduleTimeoutHandler]
            /\ UNCHANGED promise

getHighAccuracyPosition(s) ==
    /\ ~called[s]
    /\ now = 0
    /\ called' = [called EXCEPT ![s] = TRUE]
    /\ LET check == entryCheck(hasLocationPermission, isAnyLocationProviderEnabled) IN
       IF check # "ok"
       THEN /\ promise' = [promise EXCEPT ![s] = Append(@, Reject(check))]
            /\ UNCHANGED <<isRequestCompleted, bestLocationFound, requestStartTime,
                           registered, networkTimer, timeoutTimer>>
       ELSE startLocationRequest(s)
    /\ UNCHANGED <<permission, gpsEnabled, networkEnabled, now, wall, removals,
                   delivered>>
    /\ UNCHANGED <<matchVars, storeVars, handleVars, appVars>>

\* ----- LocationManager.removeUpdates -----
\* removeUpdates(listener) ends the registrations of that listener and of no other
removeUpdatesOfEveryListener(reg, s) == [t \in DOMAIN reg |-> {}]
removeUpdates(reg, s) == [reg EXCEPT ![s] = {}]

\* ----- LocationListener.onLocationChanged -----
\* completeLocationRequest(location, ...): flag, removeUpdates, resolve
onLocationChanged(s, location) ==
    LET elapsed == Ms(wall) - Ms(requestStartTime[s])
        isGpsProvider == location.provider = GPS_PROVIDER
        racing == ~listenerReturnsEarly(isRequestCompleted[s])
        complete ==
            \/ shouldReturnGpsLocationImmediately(isGpsProvider, Accuracy(location))
            \/ shouldReturnNetworkLocationAfterDelay(isGpsProvider, elapsed,
                                                     Accuracy(location))
    IN  /\ delivered' = [delivered EXCEPT ![s] =
              Append(@, [location |-> location,
                         elapsed |-> IF isGpsProvider THEN 0 ELSE elapsed,
                         racing |-> racing, completed |-> racing /\ complete])]
        /\ IF ~racing
           THEN UNCHANGED <<isRequestCompleted, bestLocationFound, registered, promise,
                            removals>>
           ELSE /\ bestLocationFound' = [bestLocationFound EXCEPT ![s] =
                      updateBestLocationIfBetter(location, @)]
                /\ IF complete
                   THEN /\ isRequestCompleted' = [isRequestCompleted EXCEPT ![s] = TRUE]
                        /\ registered' = removeUpdates(registered, s)
                        /\ removals' = [removals EXCEPT ![s] = @ + 1]
                        /\ promise' = [promise EXCEPT ![s] =
                              @ \o returnLocationResult(location)]
                   ELSE UNCHANGED <<isRequestCompleted, registered, promise, removals>>

\* the coordinates of the i-th fix of session s: no two fixes share them
FixNumber(s, i) == (s - 1) * (MaxFixes + 1) + i

\* a provider the listener is registered with delivers a fix
FixDelivered(s) ==
    /\ Len(delivered[s]) < MaxFixes
    /\ \E provider \in registered[s], hasAccuracy \in BOOLEAN, accuracy \in Accuracies :
        /\ hasAccuracy \/ accuracy = GPS_GOOD_ACCURACY_THRESHOLD
        /\ onLocationChanged(s, Location(provider, hasAccuracy, accuracy,
                                         FixNumber(s, Len(delivered[s]) + 1)))
    /\ UNCHANGED <<permission, gpsEnabled, networkEnabled, now, wall, called,
                   requestStartTime, networkTimer, timeoutTimer>>
    /\ UNCHANGED <<matchVars, storeVars, handleVars, appVars>>

\* ----- the delayed callbacks -----
\* scheduleNetworkProviderStart's callback
NetworkTimerFires(s) ==
    /\ Runnable(networkTimer[s])
    /\ networkTimer' = [networkTimer EXCEPT ![s].state = "fired"]
    /\ IF ~networkTimer[s].isCompleted /\ permission
       THEN registered' = [registered EXCEPT ![s] = @ \cup {NETWORK_PROVIDER}]
       ELSE UNCHANGED registered
    /\ UNCHANGED <<permission, gpsEnabled, networkEnabled, now, wall, called,
                   isRequestCompleted, bestLocationFound, requestStartTime,
                   timeoutTimer, promise, removals, delivered>>
    /\ UNCHANGED <<matchVars, storeVars, handleVars, appVars>>

\* scheduleTimeoutHandler's callback
TimeoutTimerFires(s) ==
    /\ Runnable(timeoutTimer[s])
    /\ timeoutTimer' = [timeoutTimer EXCEPT ![s].state = "fired"]
    /\ IF ~isRequestCompleted[s]
       THEN /\ isRequestCompleted' = [isRequestCompleted EXCEPT ![s] = TRUE]
            /\ registered' = removeUpdates(registered, s)
            /\ removals' = [removals EXCEPT ![s] = @ + 1]
            /\ promise' = [promise EXCEPT ![s] =
                  @ \o timeoutSettlement(bestLocationFound[s])]
       ELSE UNCHANGED <<isRequestCompleted, registered, promise, removals>>
    /\ UNCHANGED <<permission, gpsEnabled, networkEnabled, now, wall, called,
                   bestLocationFound, requestStartTime, networkTimer, delivered>>
    /\ UNCHANGED <<matchVars, storeVars, handleVars, appVars>>

Next ==
    \/ Tick
    \/ WallClockSet
    \/ \E s \in Sessions : getHighAccuracyPosition(s)
    \/ \E s \in Sessions : FixDelivered(s)
    \/ \E s \in Sessions : NetworkTimerFires(s)
    \/ \E s \in Sessions : TimeoutTimerFires(s)

Spec == Init /\ [][Next]_vars

\* the timers fire once they are due: the main Looper keeps running and time passes
FairSpec ==
    /\ Spec
    /\ WF_vars(Tick)
    /\ \A s \in Sessions : WF_vars(NetworkTimerFires(s))
    /\ \A s \in Sessions : WF_vars(TimeoutTimerFires(s))

\* ----- two calls in flight -----
InitConcurrent ==
    /\ permission = TRUE
    /\ gpsEnabled = TRUE
    /\ networkEnabled = TRUE
    /\ now = 0
    /\ wall = 0
    /\ called = [s \in ConcurrentSessions |-> FALSE]
    /\ isRequestCompleted = [s \in ConcurrentSessions |-> FALSE]
    /\ bestLocationFound = [s \in ConcurrentSessions |-> NoLocation]
    /\ requestStartTime = [s \in ConcurrentSessions |-> 0]
    /\ registered = [s \in ConcurrentSessions |-> {}]
    /\ networkTimer = [s \in ConcurrentSessions |-> NoTimer]
    /\ timeoutTimer = [s \in ConcurrentSessions |-> NoTimer]
    /\ promise = [s \in ConcurrentSessions |-> <<>>]
    /\ removals = [s \in ConcurrentSessions |-> 0]
    /\ delivered = [s \in ConcurrentSessions |-> <<>>]
    /\ MatchAtRest
    /\ StoreAtRest
    /\ HandleAtRest
    /\ AppAtRest

\* the fixes delivered so far to the two listeners
DeliveredInAll == Len(delivered[1]) + Len(delivered[2])

NextConcurrent ==
    \/ Tick
    \/ \E s \in ConcurrentSessions : getHighAccuracyPosition(s)
    \/ \E s \in ConcurrentSessions :
          DeliveredInAll < MaxConcurrentFixes /\ FixDelivered(s)
    \/ \E s \in ConcurrentSessions : NetworkTimerFires(s)
    \/ \E s \in ConcurrentSessions : TimeoutTimerFires(s)

SpecConcurrent == InitConcurrent /\ [][NextConcurrent]_vars

\* ----- the database handle on its own -----
InitHandle ==
    /\ ArbAtRest
    /\ MatchAtRest
    /\ StoreAtRest
    /\ HandleInit
    /\ AppAtRest

NextHandle ==
    \/ \E c \in Callers, op \in StoreFunctions : getInstance(c, op)
    \/ \E c \in Callers : openDatabaseResolves(c)
    \/ \E c \in Callers : openDatabaseRejects(c)

SpecHandle == InitHandle /\ [][NextHandle]_vars

\* ----- the check flow on its own -----
InitMatch ==
    /\ ArbAtRest
    /\ MatchInit
    /\ StoreAtRest
    /\ HandleAtRest
    /\ AppAtRest

NextMatch == checkCurrentLocationAgainstSaved

SpecMatch == InitMatch /\ [][NextMatch]_vars

\* ----- the store on its own -----
InitStore ==
    /\ ArbAtRest
    /\ MatchAtRest
    /\ StoreInit
    /\ HandleAtRest
    /\ AppAtRest

NextStore ==
    \/ \E latitude \in LatitudeInputs, longitude \in LongitudeInputs,
          timestamp \in TimestampInputs, name \in NameInputs :
            addLocation(latitude, longitude, timestamp, name)
    \/ fetchLocations
    \/ \E id \in IdInputs : deleteLocation(id)

SpecStore == InitStore /\ [][NextStore]_vars

\* ----- the store from any installation on -----
\* what a start of the application finds: nothing (a fresh installation), a version
\* row with a text that is no number, with a lower version or with this version, and
\* table locations present or absent
StoredVersions == {Undefined, Str("v1"), Str(DecimalText(DB_VERSION - 1)),
                   Str(DecimalText(DB_VERSION))}

InitSchema ==
    /\ ArbAtRest
    /\ MatchAtRest
    /\ HandleAtRest
    /\ AppAtRest
    /\ rows = <<>>
    /\ sqliteSequence = 0
    /\ lastCall = NoCall
    /\ issued = <<>>
    /\ storedVersion \in StoredVersions
    /\ tableExists \in BOOLEAN
    /\ storedVersion = Undefined => ~tableExists

NextSchema ==
    \/ initializeDatabase
    \/ NextStore

SpecSchema == InitSchema /\ [][NextSchema]_vars

\* ----- the screen and the store: the user's gestures and the awaited calls
\* ----- settling in any order, up to MaxFlows flows from mount on
\* the store as an earlier run of the application left it: empty, or with one
\* saved location
StoreWithLocation ==
    /\ rows = <<[id |-> 1, latitude |-> RefLatitude, longitude |-> 180,
                 timestamp |-> CurrentTimestamp, name |-> "Home"]>>
    /\ sqliteSequence = 1
    /\ lastCall = NoCall
    /\ issued = <<1>>
    /\ tableExists = TRUE
    /\ storedVersion = Str(DecimalText(DB_VERSION))

InitApp ==
    /\ ArbAtRest /\ MatchAtRest /\ HandleAtRest /\ AppInit
    /\ StoreAtRest \/ StoreWithLocation

NextApp ==
    \/ handleRefreshLocationList
    \/ showAddLocationDialog
    \/ hideAddLocationDialog
    \/ \E text \in NameInputTexts : setNewLocationName(text)
    \/ saveNewLocation
    \/ debouncedCheckLocation
    \/ debounceFires
    \/ \E k \in 1 .. MaxAdds : confirmAndDeleteLocation(k)
    \/ deleteAlertCancelled
    \/ deleteAlertConfirmed
    \/ \E i \in 1 .. Len(flows), ok \in BOOLEAN :
         \/ initializeDatabaseSettles(i, ok)
         \/ loadSavedLocationsSettles(i, ok)
         \/ requestLocationAccessSettles(i, ok)
         \/ \E position \in AppPositions : getCurrentLocationSettles(i, ok, position)
         \/ addLocationSettles(i, ok)
         \/ deleteLocationSettles(i, ok)

SpecApp == InitApp /\ [][NextApp]_vars

\* ===== properties of the position arbiter =====
Entries(s) == {delivered[s][i] : i \in 1 .. Len(delivered[s])}
\* the fixes the listener received while its session was racing
RacingEntries(s) == {e \in Entries(s) : e.racing}
LastEntry(s) == delivered[s][Len(delivered[s])]
IsGps(e) == e.location.provider = GPS_PROVIDER
\* a fix meets an immediate-accept condition
Accepting(e) ==
    \/ IsGps(e) /\ Accuracy(e.location) <= 20
    \/ ~IsGps(e) /\ e.elapsed > 5000 /\ Accuracy(e.location) <= 50
PassedEntry(s) == timeoutTimer[s] # NoTimer
Settlements(s) == {promise[s][i] : i \in 1 .. Len(promise[s])}

\* C1: in a session that passed the entry checks, if at least one fix was delivered
\* while racing and none met an immediate-accept condition, the promise is never
\* rejected, and once the timeout timer has fired it is resolved with the coordinates
\* of the best fix, which is one of the delivered fixes.
C1_TimeoutSuccess ==
    \A s \in Sessions :
        (PassedEntry(s) /\ RacingEntries(s) # {}
            /\ \A e \in RacingEntries(s) : ~Accepting(e))
        => /\ \A p \in Settlements(s) : p.kind # "reject"
           /\ timeoutTimer[s].state = "fired"
              => /\ bestLocationFound[s] \in {e.location : e \in RacingEntries(s)}
                 /\ promise[s] = <<[kind |-> "resolve",
                                    latitude |-> bestLocationFound[s].latitude,
                                    longitude |-> bestLocationFound[s].longitude]>>

C1_Witness ==
    \E s \in Sessions :
        /\ timeoutTimer[s].state = "fired"
        /\ Cardinality(RacingEntries(s)) = 2
        /\ \A e \in RacingEntries(s) : ~Accepting(e)
        /\ bestLocationFound[s] = delivered[s][2].location
        /\ Len(promise[s]) = 1 /\ promise[s][1].kind = "resolve"

\* C2: in a session that passed the entry checks and received no fix while racing,
\* the promise is never resolved with a position, and once the timeout timer has
\* fired it is rejected with TIMEOUT.
C2_TimeoutFailure ==
    \A s \in Sessions :
        (PassedEntry(s) /\ RacingEntries(s) = {})
        => /\ \A p \in Settlements(s) : p.kind # "resolve"
           /\ timeoutTimer[s].state = "fired"
              => promise[s] = <<[kind |-> "reject", code |-> "TIMEOUT"]>>

C2_Witness ==
    \E s \in Sessions :
        /\ timeoutTimer[s].state = "fired"
        /\ delivered[s] = <<>>
        /\ promise[s] = <<[kind |-> "reject", code |-> "TIMEOUT"]>>

\* C3: the best fix is one of the fixes delivered while racing, no delivered fix has
\* a smaller accuracy, and among the fixes of its accuracy it is the earliest; there
\* is no best fix exactly as long as no fix was delivered.
C3_BestIsMostAccurate ==
    \A s \in Sessions :
        /\ (bestLocationFound[s] = NoLocation) = (RacingEntries(s) = {})
        /\ RacingEntries(s) # {}
           => /\ bestLocationFound[s] \in {e.location : e \in RacingEntries(s)}
              /\ \A e \in RacingEntries(s) :
                    /\ Accuracy(bestLocationFound[s]) <= Accuracy(e.location)
                    /\ Accuracy(bestLocationFound[s]) = Accuracy(e.location)
                       => bestLocationFound[s].latitude <= e.location.latitude

C3_Witness ==
    \E s \in Sessions :
        /\ ~isRequestCompleted[s]
        /\ Len(delivered[s]) = 2
        /\ Accuracy(delivered[s][1].location) = Accuracy(delivered[s][2].location)
        /\ bestLocationFound[s] = delivered[s][1].location

\* C4: a GPS fix delivered while racing with accuracy <= 20 completes the session at
\* once, whatever the elapsed time, and the promise is resolved with that very fix.
C4_GpsFastPath ==
    \A s \in Sessions : \A e \in RacingEntries(s) :
        (IsGps(e) /\ Accuracy(e.location) <= 20)
        => /\ e.completed
           /\ isRequestCompleted[s]
           /\ promise[s] = <<[kind |-> "resolve", latitude |-> e.location.latitude,
                              longitude |-> e.location.longitude]>>

\* the accepted GPS fix has accuracy exactly 20 and is not the best fix
C4_Witness ==
    \E s \in Sessions :
        /\ Len(delivered[s]) = 2
        /\ IsGps(delivered[s][2]) /\ delivered[s][2].racing
        /\ delivered[s][2].location.hasAccuracy
        /\ delivered[s][2].location.accuracy = 20
        /\ bestLocationFound[s] = delivered[s][1].location
        /\ promise[s] = <<Resolve(delivered[s][2].location)>>

\* C5: a network fix delivered at an elapsed time below 5000 ms never completes the
\* session, whatever its accuracy: right after it the session is still racing with
\* its promise unsettled, unless the timeout has fired since.
C5_NetworkBeforeGrace ==
    \A s \in Sessions :
        /\ \A e \in Entries(s) : (~IsGps(e) /\ e.elapsed < 5000) => ~e.completed
        /\ (/\ delivered[s] # <<>>
            /\ LastEntry(s).racing /\ ~IsGps(LastEntry(s)) /\ LastEntry(s).elapsed < 5000
            /\ timeoutTimer[s].state = "pending")
           => ~isRequestCompleted[s] /\ promise[s] = <<>>

\* a network fix of accuracy 20 arrives early, becomes the best fix, and the
\* session keeps racing
C5_Witness ==
    \E s \in Sessions :
        /\ delivered[s] # <<>>
        /\ ~IsGps(LastEntry(s)) /\ LastEntry(s).racing
        /\ LastEntry(s).elapsed < 5000
        /\ LastEntry(s).location.hasAccuracy /\ LastEntry(s).location.accuracy = 20
        /\ bestLocationFound[s] = LastEntry(s).location
        /\ ~isRequestCompleted[s] /\ promise[s] = <<>>

\* C6: a network fix delivered while racing completes the session exactly when the
\* elapsed time is above 5000 ms and its accuracy is at most 50; the promise is then
\* resolved with that fix, and otherwise the fix settles nothing.
C6_NetworkAfterGrace ==
    \A s \in Sessions :
        /\ \A e \in RacingEntries(s) :
              ~IsGps(e)
              => /\ e.completed = (e.elapsed > 5000 /\ Accuracy(e.location) <= 50)
                 /\ e.completed
                    => /\ isRequestCompleted[s]
                       /\ promise[s] = <<[kind |-> "resolve",
                                          latitude |-> e.location.latitude,
                                          longitude |-> e.location.longitude]>>
        /\ (/\ delivered[s] # <<>>
            /\ LastEntry(s).racing /\ ~IsGps(LastEntry(s)) /\ ~LastEntry(s).completed
            /\ timeoutTimer[s].state = "pending")
           => ~isRequestCompleted[s] /\ promise[s] = <<>>

\* a network fix of accuracy 50 at elapsed time exactly 5000 ms: still racing
C6_Witness ==
    \E s \in Sessions :
        /\ delivered[s] # <<>>
        /\ ~IsGps(LastEntry(s)) /\ LastEntry(s).racing
        /\ LastEntry(s).elapsed = 5000
        /\ LastEntry(s).location.hasAccuracy /\ LastEntry(s).location.accuracy = 50
        /\ ~isRequestCompleted[s] /\ promise[s] = <<>>

\* C7: a fix without accuracy is strictly worse than any fix with accuracy: it never
\* completes the session, and once a fix with accuracy was delivered while racing
\* the best fix is a fix with accuracy.
C7_UnknownAccuracyIsWorst ==
    \A s \in Sessions :
        /\ \A e \in RacingEntries(s) : ~e.location.hasAccuracy => ~e.completed
        /\ (\E e \in RacingEntries(s) : e.location.hasAccuracy)
           => bestLocationFound[s].hasAccuracy

\* C8: a call without the permission is rejected with PERMISSION_DENIED, also when
\* no provider is enabled; a call with the permission and no enabled provider is
\* rejected with GPS_DISABLED; in both cases the listener is registered with no
\* provider and no timer is scheduled.
C8_EntryChecks ==
    \A s \in Sessions :
        called[s]
        => /\ ~permission
              => promise[s] = <<[kind |-> "reject", code |-> "PERMISSION_DENIED"]>>
           /\ (permission /\ ~gpsEnabled /\ ~networkEnabled)
              => promise[s] = <<[kind |-> "reject", code |-> "GPS_DISABLED"]>>
           /\ (~permission \/ (~gpsEnabled /\ ~networkEnabled))
              => /\ registered[s] = {}
                 /\ networkTimer[s] = NoTimer
                 /\ timeoutTimer[s] = NoTimer

C8_Witness ==
    \E s \in Sessions :
        /\ called[s] /\ ~permission /\ ~gpsEnabled /\ ~networkEnabled
        /\ promise[s] = <<Reject("PERMISSION_DENIED")>>

\* C9: the promise of a call is settled at most once, a settlement is never changed
\* or followed by another, and the completed flag never goes back to false.
C9_SettledOnce ==
    [][\A s \in Sessions :
          /\ Len(promise'[s]) <= 1
          /\ promise[s] # <<>> => promise'[s] = promise[s]
          /\ isRequestCompleted[s] => isRequestCompleted'[s]]_vars

\* a fix reached the listener of a completed session, and the timeout fired after
\* the session was resolved by a fix
C9_Witness ==
    \E s \in Sessions :
        /\ \E e \in Entries(s) : e.completed
        /\ \E e \in Entries(s) : ~e.racing
        /\ timeoutTimer[s].state = "fired"
        /\ Len(promise[s]) = 1

\* C10: every call eventually settles its promise, given that time passes and due
\* timers fire.
C10_EventuallySettled ==
    \A s \in Sessions : called[s] ~> (promise[s] # <<>>)

\* a session that raced until the timeout, with a fix that was not good enough
C10_Witness ==
    \E s \in Sessions :
        /\ timeoutTimer[s].state = "fired"
        /\ RacingEntries(s) # {}
        /\ \A e \in Entries(s) : ~e.completed
        /\ promise[s] # <<>>

\* C20: the network provider is subscribed only while the session has not resolved:
\* a completed session's listener is never registered with the network provider.
C20_NetworkOnlyWhileRacing ==
    \A s \in Sessions :
        isRequestCompleted[s] => NETWORK_PROVIDER \notin registered[s]

\* ===== properties of the location store =====
IsNumber(v) == v.type = "number" /\ v.kind = "finite"
IsText(v) == v.type = "string" /\ v.text # ""

\* C15: addLocation with latitude 0 or longitude 0, the other coordinate a number,
\* and a timestamp and a name that are not empty, inserts the row and returns its id.
C15_ZeroCoordinateAccepted ==
    (/\ lastCall.op = "addLocation"
     /\ IsNumber(lastCall.args[1]) /\ IsNumber(lastCall.args[2])
     /\ (lastCall.args[1].value = 0 \/ lastCall.args[2].value = 0)
     /\ IsText(lastCall.args[3]) /\ IsText(lastCall.args[4]))
    => /\ lastCall.outcome = "returned"
       /\ IsNumber(lastCall.value)
       /\ \E i \in 1 .. Len(rows) :
            /\ rows[i].id = lastCall.value.value
            /\ rows[i].latitude = lastCall.args[1].value
            /\ rows[i].longitude = lastCall.args[2].value

\* C16: deleteLocation with a number for an id never throws; it returns true exactly
\* when a row with that id existed, and then that row is gone; with an id that
\* matches no row it returns false and the rows are as they were.
C16_DeleteMissingIsNoOp ==
    (lastCall.op = "deleteLocation" /\ IsNumber(lastCall.args[1]))
    => LET id == lastCall.args[1].value
           existed == id \in RowIds(lastCall.before)
       IN  /\ lastCall.outcome = "returned"
           /\ lastCall.value = Bool(existed)
           /\ existed => id \notin RowIds(rows)
           /\ ~existed => rows = lastCall.before

\* C17: the ids addLocation returned are strictly increasing in the order of the
\* calls, so each differs from every id returned earlier, also from those of rows
\* deleted since; the stored rows carry such ids, pairwise distinct and increasing in
\* creation order; the id a call returns is the id of the row it created.
C17_IdsNeverReused ==
    /\ \A i, j \in 1 .. Len(issued) : i < j => issued[i] < issued[j]
    /\ \A i, j \in 1 .. Len(rows) : i < j => rows[i].id < rows[j].id
    /\ RowIds(rows) \subseteq {issued[i] : i \in 1 .. Len(issued)}
    /\ (lastCall.op = "addLocation" /\ lastCall.outcome = "returned")
       => /\ lastCall.value = Num(issued[Len(issued)])
          /\ rows = Append(lastCall.before,
                           [id |-> issued[Len(issued)],
                            latitude |-> lastCall.args[1].value,
                            longitude |-> lastCall.args[2].value,
                            timestamp |-> lastCall.args[3].text,
                            name |-> lastCall.args[4].text])

\* a row was created and deleted, and addLocation has just returned the next id
C17_Witness ==
    /\ Len(issued) = 2
    /\ lastCall.op = "addLocation" /\ lastCall.outcome = "returned"
    /\ lastCall.before = <<>>
    /\ RowIds(rows) = {issued[2]}

\* C18: a step of the store leaves every row it does not delete as it was, with its
\* latitude, longitude, timestamp and name; a row disappears only in a call of
\* deleteLocation with that row's id; a row appears only in a call of addLocation,
\* with the call's arguments; fetchLocations returns the rows and changes nothing.
C18_RowsImmutable ==
    [][/\ \A i \in 1 .. Len(rows) :
            \/ \E j \in 1 .. Len(rows') : rows'[j] = rows[i]
            \/ /\ rows[i].id \notin RowIds(rows')
               /\ lastCall'.op = "deleteLocation"
               /\ lastCall'.outcome = "returned"
               /\ lastCall'.args = <<Num(rows[i].id)>>
       /\ \A j \in 1 .. Len(rows') :
            \/ \E i \in 1 .. Len(rows) : rows[i] = rows'[j]
            \/ /\ lastCall'.op = "addLocation"
               /\ lastCall'.outcome = "returned"
               /\ rows'[j].latitude = lastCall'.args[1].value
               /\ rows'[j].longitude = lastCall'.args[2].value
               /\ rows'[j].timestamp = lastCall'.args[3].text
               /\ rows'[j].name = lastCall'.args[4].text
       /\ lastCall'.op = "fetchLocations"
          => rows' = rows /\ lastCall'.fetched = rows]_vars

\* deleteLocation has just removed one of two rows, and the other is as it was
C18_Witness ==
    /\ lastCall.op = "deleteLocation"
    /\ lastCall.value = Bool(TRUE)
    /\ Len(lastCall.before) = 2
    /\ Len(rows) = 1
    /\ \E i \in 1 .. 2 : lastCall.before[i] = rows[1]

\* ===== properties of the nearest-match scan =====
Scanned == alert # NoAlert
Candidates == {savedLocations[i] : i \in 1 .. Len(savedLocations)}
\* the distance from the current position to a saved location
DistanceTo(savedLocation) ==
    calculateDistanceBetweenPoints(currentPosition.latitude, currentPosition.longitude,
                                   savedLocation.latitude, savedLocation.longitude)

\* C11: on a list that is not empty the scan returns an element of the list, with
\* its distance to the current position, and that distance is less than or equal to
\* the distance of every element of the list.
C11_ScanReturnsNearest ==
    (Scanned /\ savedLocations # <<>>)
    => /\ closestLocation.location # <<>>
       /\ closestLocation.location[1] \in Candidates
       /\ closestLocation.distance = DistanceTo(closestLocation.location[1])
       /\ \A c \in Candidates : JsLessEq(closestLocation.distance, DistanceTo(c))

\* C12: the scan returns the first element of the list among those at the minimal
\* distance from the current position.
C12_FirstOfTies ==
    Scanned
    => \A i \in 1 .. Len(savedLocations) :
         (/\ IsNumber(DistanceTo(savedLocations[i]))
          /\ \A j \in 1 .. Len(savedLocations) :
                IsNumber(DistanceTo(savedLocations[j]))
                => DistanceTo(savedLocations[i]).value <= DistanceTo(savedLocations[j]).value
          /\ \A j \in 1 .. i - 1 :
                DistanceTo(savedLocations[j]) # DistanceTo(savedLocations[i]))
         => closestLocation.location = <<savedLocations[i]>>

\* two saved locations at different places are both at the minimal distance, and
\* the scan returned the first
C12_Witness ==
    /\ Scanned
    /\ Len(savedLocations) = 2
    /\ savedLocations[1].latitude # savedLocations[2].latitude
    /\ IsNumber(DistanceTo(savedLocations[1]))
    /\ DistanceTo(savedLocations[1]) = DistanceTo(savedLocations[2])
    /\ closestLocation.location = <<savedLocations[1]>>

\* C13: on the empty list the scan returns distance Infinity and no location, and
\* the flow shows the not-matched alert (not the error alert).
C13_EmptyList ==
    (Scanned /\ savedLocations = <<>>)
    => /\ closestLocation = [location |-> <<>>, distance |-> Infinity]
       /\ alert.title = "noMatch"

\* the flow ran on the empty list
C13_Witness ==
    /\ savedLocations = <<>>
    /\ closestLocation.distance = Infinity
    /\ alert = [title |-> "noMatch", name |-> "Khong co"]

\* C14: the flow shows the matched alert if and only if the distance the scan
\* returned is a number of at most 20 meters, and the not-matched alert otherwise;
\* the location the matched alert names is the one the scan returned, an element of
\* the list at that distance, no farther than any other element.
C14_MatchedIffWithinThreshold ==
    Scanned
    => /\ alert.title = "match"
          <=> (IsNumber(closestLocation.distance)
               /\ closestLocation.distance.value <= DISTANCE_THRESHOLD_METERS)
       /\ alert.title # "match" => alert.title = "noMatch"
       /\ alert.title = "match"
          => /\ closestLocation.location # <<>>
             /\ closestLocation.location[1] \in Candidates
             /\ alert.name = closestLocation.location[1].name
             /\ closestLocation.distance = DistanceTo(closestLocation.location[1])
             /\ \A c \in Candidates :
                    IsNumber(DistanceTo(c))
                    => closestLocation.distance.value <= DistanceTo(c).value

\* the nearest saved location is exactly 20 meters away and the flow matched it
C14_Witness ==
    /\ alert.title = "match"
    /\ closestLocation.distance = Num(DISTANCE_THRESHOLD_METERS)
    /\ \A c \in Candidates : DistanceTo(c) # Num(0)

\* C19: the distance from a point to itself is 0, the distance between two points is
\* a number that is not negative, and swapping the two points gives the same value;
\* stated of the current position and every saved location the scan measured.
C19_DistanceLaws ==
    Scanned
    => \A c \in Candidates :
         LET lat1 == currentPosition.latitude
             lon1 == currentPosition.longitude
         IN  /\ calculateDistanceBetweenPoints(lat1, lon1, lat1, lon1) = Num(0)
             /\ calculateDistanceBetweenPoints(c.latitude, c.longitude,
                                               c.latitude, c.longitude) = Num(0)
             /\ IsNumber(DistanceTo(c))
             /\ DistanceTo(c).value >= 0
             /\ DistanceTo(c) = calculateDistanceBetweenPoints(c.latitude, c.longitude,
                                                               lat1, lon1)

\* C21: once a session has resolved, its listener is registered with no provider,
\* and removeUpdates was called for it exactly once; it is not called for a session
\* that is still racing.
C21_UnsubscribedExactlyOnce ==
    \A s \in Sessions :
        /\ isRequestCompleted[s] => (registered[s] = {} /\ removals[s] = 1)
        /\ ~isRequestCompleted[s] => removals[s] = 0

\* C22: a step of the network-start callback or of the timeout callback of a session
\* that has resolved leaves the session's promise, best fix, completed flag and
\* registrations as they were.
C22_LateTimersHaveNoEffect ==
    [][\A s \in Sessions :
          (/\ isRequestCompleted[s]
           /\ (networkTimer'[s] # networkTimer[s] \/ timeoutTimer'[s] # timeoutTimer[s]))
          => /\ promise'[s] = promise[s]
             /\ bestLocationFound'[s] = bestLocationFound[s]
             /\ isRequestCompleted'[s] = isRequestCompleted[s]
             /\ registered'[s] = registered[s]]_vars

\* C23: a fix handed to the listener of a session that has resolved leaves the
\* session's best fix, promise, completed flag and registrations as they were, and
\* removeUpdates is not called.
C23_LateFixHasNoEffect ==
    [][\A s \in Sessions :
          (isRequestCompleted[s] /\ delivered'[s] # delivered[s])
          => /\ bestLocationFound'[s] = bestLocationFound[s]
             /\ promise'[s] = promise[s]
             /\ isRequestCompleted'[s] = isRequestCompleted[s]
             /\ registered'[s] = registered[s]
             /\ removals'[s] = removals[s]]_vars

\* a session resolved by a GPS fix received afterwards a network fix that would
\* have been accepted and more accurate than its best fix would have been kept
C23_Witness ==
    \E s \in Sessions :
        /\ Len(delivered[s]) = 2
        /\ delivered[s][1].completed
        /\ ~delivered[s][2].racing
        /\ ~IsGps(delivered[s][2])
        /\ Len(promise[s]) = 1
        /\ bestLocationFound[s] = delivered[s][1].location

\* ===== properties of concurrent sessions =====
\* C24: a position a session's promise is resolved with is that of a fix its own
\* listener received while the session was racing: the fix that completed the
\* session, or, when the timeout resolved it, the session's best fix.  (No two fixes
\* have the same coordinates, so it is a fix of no other session.)
C24_ResolvedWithOwnFix ==
    \A s \in DOMAIN promise : \A i \in 1 .. Len(promise[s]) :
        promise[s][i].kind = "resolve"
        => \/ \E e \in RacingEntries(s) :
                e.completed /\ promise[s][i] = Resolve(e.location)
           \/ /\ \A e \in Entries(s) : ~e.completed
              /\ timeoutTimer[s].state = "fired"
              /\ bestLocationFound[s] # NoLocation
              /\ promise[s][i] = Resolve(bestLocationFound[s])
              /\ \E e \in RacingEntries(s) : e.location = bestLocationFound[s]

\* of two sessions in flight one was resolved by a fix and the other by the timeout,
\* each with its own fix
C24_Witness ==
    \E s, t \in DOMAIN promise :
        /\ s # t
        /\ \E e \in Entries(s) : e.completed /\ promise[s] = <<Resolve(e.location)>>
        /\ timeoutTimer[t].state = "fired"
        /\ \A e \in Entries(t) : ~e.completed
        /\ bestLocationFound[t] # NoLocation
        /\ promise[t] = <<Resolve(bestLocationFound[t])>>
        /\ promise[s] # promise[t]

\* C25: a step that is not a call, a fix or a timer of a session leaves that
\* session's completed flag, best fix, promise and registrations as they were.
C25_SessionsDoNotInterfere ==
    [][\A s \in DOMAIN promise :
          (/\ called'[s] = called[s]
           /\ delivered'[s] = delivered[s]
           /\ networkTimer'[s] = networkTimer[s]
           /\ timeoutTimer'[s] = timeoutTimer[s])
          => /\ isRequestCompleted'[s] = isRequestCompleted[s]
             /\ bestLocationFound'[s] = bestLocationFound[s]
             /\ promise'[s] = promise[s]
             /\ registered'[s] = registered[s]
             /\ removals'[s] = removals[s]]_vars

\* one of two sessions in flight has resolved and removed its listener while the
\* other, which has received a fix, is still racing with its listener registered
C25_Witness ==
    \E s, t \in DOMAIN promise :
        /\ s # t
        /\ isRequestCompleted[s] /\ removals[s] = 1 /\ Len(promise[s]) = 1
        /\ called[t] /\ ~isRequestCompleted[t]
        /\ delivered[t] # <<>>
        /\ registered[t] # {}
        /\ promise[t] = <<>>

\* C26: a call of addLocation with a missing field or a coordinate that is not a
\* number, and a call of deleteLocation with a missing id or an id that is not a
\* number, throws; and a call that throws leaves the rows, the next id to assign and
\* the ids issued as they were.
C26_RejectsBeforeAccess ==
    [][/\ (/\ lastCall'.op = "addLocation"
           /\ \/ \E i \in 1 .. 4 : lastCall'.args[i] = Undefined
              \/ lastCall'.args[1].type # "number"
              \/ lastCall'.args[2].type # "number")
          => lastCall'.outcome = "threw"
       /\ (lastCall'.op = "deleteLocation" /\ lastCall'.args[1].type # "number")
          => lastCall'.outcome = "threw"
       /\ lastCall'.outcome = "threw"
          => /\ rows' = rows
             /\ sqliteSequence' = sqliteSequence
             /\ insertId(rows', sqliteSequence') = insertId(rows, sqliteSequence)
             /\ issued' = issued]_vars

\* deleteLocation has just thrown on a store that holds a row and has deleted one
C26_Witness ==
    /\ lastCall.op = "deleteLocation"
    /\ lastCall.outcome = "threw"
    /\ lastCall.args[1].type # "number"
    /\ Len(rows) = 1
    /\ sqliteSequence = 2
    /\ rows = lastCall.before

\* ===== properties of the schema version =====
\* C27: a run of initializeDatabase that finds a stored version other than
\* DB_VERSION (none, a text that is no number, a lower one) leaves table locations
\* empty with its ids starting again, and DB_VERSION stored; a run that finds
\* DB_VERSION stored changes nothing, rows included; after a run that returned the
\* table exists and DB_VERSION is stored; a run right after a run that returned
\* changes nothing.
C27_MigratesExactlyWhenLower ==
    [][lastCall'.op = "initializeDatabase"
       => LET current == Str(DecimalText(DB_VERSION))
              unchanged == /\ rows' = rows
                           /\ sqliteSequence' = sqliteSequence
                           /\ tableExists' = tableExists
                           /\ storedVersion' = storedVersion
          IN  /\ storedVersion # current
                 => /\ rows' = <<>>
                    /\ sqliteSequence' = 0
                    /\ tableExists'
                    /\ storedVersion' = current
                    /\ lastCall'.outcome = "returned"
              /\ storedVersion = current => unchanged
              /\ lastCall'.outcome = "returned" => (tableExists' /\ storedVersion' = current)
              /\ (lastCall.op = "initializeDatabase" /\ lastCall.outcome = "returned")
                 => unchanged]_vars

\* a run found DB_VERSION stored and kept the row of the table; an earlier run had
\* discarded a row (the id 1 was issued again since)
C27_Witness ==
    /\ lastCall.op = "initializeDatabase"
    /\ lastCall.outcome = "returned"
    /\ lastCall.args = <<Str(DecimalText(DB_VERSION))>>
    /\ Len(rows) = 1
    /\ rows = lastCall.before
    /\ Len(issued) = 2
    /\ issued[1] = issued[2]

\* ===== properties of the database handle =====
\* C29: SQLite.openDatabase is called at most once, and all the calls of
\* Database.getInstance that have returned, returned the same handle.
C29_OpenedOnce ==
    /\ opened <= 1
    /\ \A c, d \in Callers :
         (callers[c].pc = "returned" /\ callers[d].pc = "returned")
         => callers[c].handle = callers[d].handle

\* ----- claims about the screen's flows -----

\* the flows awaiting one of the given calls
Awaiting(calls) == {i \in 1 .. Len(flows) : flows[i].pc \in calls}

\* C28: at most one store operation issued by the screen's flows (initialize, add
\* after save, delete after confirmation, fetch for a reload) is in flight at any
\* time; in particular no two writes (addLocation, deleteLocation) are in flight
\* together.
C28_OneStoreOperationInFlight ==
    /\ Cardinality(Awaiting(StoreFunctions)) <= 1
    /\ Cardinality(Awaiting({"addLocation", "deleteLocation"})) <= 1

\* C30: at most one position acquisition started by the screen is in flight at any
\* time: while a save or a check awaits getHighAccuracyPosition no second call of
\* it is started.
C30_OnePositionSessionInFlight ==
    Cardinality(Awaiting({"getHighAccuracyPosition"})) <= 1

\* the save flows, and the row a save flow writes
IsSave(f) == f.flow = "saveNewLocation"
RowOf(f, id) ==
    [id |-> id, latitude |-> f.position[1].latitude,
     longitude |-> f.position[1].longitude, timestamp |-> CurrentTimestamp,
     name |-> trim(f.name)]

\* C31: a save flow starts only with a name that is not blank, asks for the
\* position only once the permission was granted, and calls addLocation only once
\* it holds a position; a row is added to the store only by a save flow that
\* went through these three, and carries its name and position; a save flow
\* that ends on a refused permission or a failed acquisition adds no row; and a
\* save flow that set isProcessing leaves it false when it ends.
C31_SaveWritesLast ==
    [][/\ \A i \in 1 .. Len(flows') :
            (i > Len(flows) /\ IsSave(flows'[i]))
            => /\ flows'[i].pc = "requestLocationAccess"
               /\ trim(flows'[i].name) # ""
               /\ rows' = rows
       /\ \A i \in 1 .. Len(flows) :
            IsSave(flows[i]) =>
              /\ (flows'[i].pc = "getHighAccuracyPosition" /\ flows'[i] # flows[i])
                 => /\ flows[i].pc = "requestLocationAccess"
                    /\ flows'[i].granted
                    /\ rows' = rows
              /\ (flows'[i].pc = "addLocation" /\ flows'[i] # flows[i])
                 => /\ flows[i].pc = "getHighAccuracyPosition"
                    /\ flows[i].granted
                    /\ flows'[i].position # <<>>
                    /\ rows' = rows
              /\ (flows'[i].pc = "ended"
                  /\ flows[i].pc \in {"requestLocationAccess", "getHighAccuracyPosition"})
                 => rows' = rows
              /\ (flows'[i].pc = "ended"
                  /\ flows[i].pc \in {"getHighAccuracyPosition", "addLocation",
                                      "fetchLocations"})
                 => isProcessing' = FALSE
       /\ Len(rows') > Len(rows)
          => \E i \in 1 .. Len(flows) :
               /\ IsAt(flows[i], "saveNewLocation", "addLocation")
               /\ flows'[i].pc = "fetchLocations"
               /\ trim(flows[i].name) # ""
               /\ flows[i].granted
               /\ flows[i].position # <<>>
               /\ rows' = Append(rows, RowOf(flows[i], rows'[Len(rows')].id))
      ]_vars

\* a save flow has ended after its row was written and the list reloaded
C31_Witness ==
    /\ ~isProcessing
    /\ \E i \in 1 .. Len(flows) : IsAt(flows[i], "saveNewLocation", "ended")
    /\ \E k \in 1 .. Len(rows) :
         /\ rows[k].latitude = RefLatitude + DISTANCE_THRESHOLD_METERS + 1
         /\ \E j \in 1 .. Len(savedLocations) : savedLocations[j] = rows[k]

\* C32: the location a check flow reports, as matched or as nearest, is a row of
\* the store at the moment the flow reports it.
C32_ReportedLocationIsStored ==
    [][\A i \in 1 .. Len(flows) :
         (/\ IsAt(flows[i], "checkCurrentLocationAgainstSaved",
                  "getHighAccuracyPosition")
          /\ flows'[i].pc = "ended"
          /\ alert'.title \in {"match", "noMatch"}
          /\ closestLocation'.location # <<>>)
         => \E k \in 1 .. Len(rows') : rows'[k] = closestLocation'.location[1]
      ]_vars

====
